---------------------------- MODULE Spec2Model ----------------------------
(***************************************************************************)
(* Model of ai-api/app.py: a Flask service with one POST /predict handler  *)
(* that validates a text, runs it through a sentiment classifier and       *)
(* picks a canned recommendation with get_personalized_recommendation.     *)
(*                                                                         *)
(* Representation:                                                         *)
(*  - a Python str is a sequence of one-character strings, so that         *)
(*    strip(), lower(), len() and the `in` substring test are computed;    *)
(*  - a confidence score is an integer number of hundredths                *)
(*    (0.9 is 90, 0.91 is 91);                                             *)
(*  - messages and tips are the source's strings without their leading     *)
(*    emoji.                                                               *)
(***************************************************************************)
EXTENDS Integers, Sequences, FiniteSets, TLC

VARIABLES
    sentiment_analyzer, \* module global, app.py:15-20: "pipeline" or "None"
    pc,                 \* pc[w]: position of handler thread w in predict()
    req,                \* req[w]: index in Requests of the request w handles
    result,             \* result[w]: what sentiment_analyzer(text) returned
    recommendations,    \* recommendations[w]: local of predict(), line 80
    resp,               \* resp[w]: the HTTP response w returned
    trace,              \* trace[w]: the steps w has executed for its request
    selIn,              \* arguments of a direct call of the selector
    selOut              \* its return value

vars == <<sentiment_analyzer, pc, req, result, recommendations, resp, trace,
          selIn, selOut>>

handlerVars == <<sentiment_analyzer, pc, req, result, recommendations, resp,
                 trace>>

-----------------------------------------------------------------------------
(* Bounds and program constants *)

\* number of handler threads the HTTP server runs concurrently
NumWorkers == 2

\* app.py:59  len(text) > 1000
MaxTextLen == 1000

\* app.py:107  confidence > 0.9, in hundredths
Threshold == 90

Workers == 1..NumWorkers

-----------------------------------------------------------------------------
(* Python str operations *)

Whitespace == {" ", "\t", "\n"}

ToLower ==
    "A" :> "a" @@ "B" :> "b" @@ "C" :> "c" @@ "D" :> "d" @@ "E" :> "e" @@
    "F" :> "f" @@ "G" :> "g" @@ "H" :> "h" @@ "I" :> "i" @@ "J" :> "j" @@
    "K" :> "k" @@ "L" :> "l" @@ "M" :> "m" @@ "N" :> "n" @@ "O" :> "o" @@
    "P" :> "p" @@ "Q" :> "q" @@ "R" :> "r" @@ "S" :> "s" @@ "T" :> "t" @@
    "U" :> "u" @@ "V" :> "v" @@ "W" :> "w" @@ "X" :> "x" @@ "Y" :> "y" @@
    "Z" :> "z"

LowerChar(c) == IF c \in DOMAIN ToLower THEN ToLower[c] ELSE c

\* str.lower()
lower(s) == [i \in 1..Len(s) |-> LowerChar(s[i])]

RECURSIVE FirstInner(_, _)
\* index of the first non-whitespace character of s at or after i
FirstInner(s, i) ==
    IF i > Len(s) \/ s[i] \notin Whitespace THEN i ELSE FirstInner(s, i + 1)

RECURSIVE LastInner(_, _)
\* index of the last non-whitespace character of s at or before i
LastInner(s, i) ==
    IF i < 1 \/ s[i] \notin Whitespace THEN i ELSE LastInner(s, i - 1)

\* a strip() that was left out: the text as it came
stripNone(s) == s

\* str.strip(): drop the leading and the trailing whitespace
strip(s) == SubSeq(s, FirstInner(s, 1), LastInner(s, Len(s)))

\* `word in s` for two strs
Contains(word, s) ==
    \E i \in 1..(Len(s) - Len(word) + 1) :
        \A j \in 1..Len(word) : s[i + j - 1] = word[j]

\* any(word in text_lower for word in words)
AnyWordIn(words, text_lower) ==
    \E k \in 1..Len(words) : Contains(words[k], text_lower)

-----------------------------------------------------------------------------
(* get_personalized_recommendation, app.py:100-171 *)

AnxietyWords == <<
    <<"a", "n", "x", "i", "o", "u", "s">>,
    <<"a", "n", "x", "i", "e", "t", "y">>,
    <<"w", "o", "r", "r", "i", "e", "d">>,
    <<"s", "t", "r", "e", "s", "s">> >>

SadWords == <<
    <<"s", "a", "d">>,
    <<"d", "e", "p", "r", "e", "s", "s", "e", "d">>,
    <<"d", "o", "w", "n">>,
    <<"u", "p", "s", "e", "t">> >>

AngerWords == <<
    <<"a", "n", "g", "r", "y">>,
    <<"m", "a", "d">>,
    <<"f", "r", "u", "s", "t", "r", "a", "t", "e", "d">>,
    <<"i", "r", "r", "i", "t", "a", "t", "e", "d">> >>

PositiveHigh == [
    message |-> "You're radiating positive energy! This is wonderful to see.",
    tips |-> << "Listen to your favorite uplifting music",
                "Share this positive energy with a friend",
                "Write down what made you feel good today",
                "Use this momentum for a creative project" >> ]

PositiveModerate == [
    message |-> "You seem to be feeling good! Let's build on these positive vibes.",
    tips |-> << "Take a pleasant walk outside",
                "Read something inspiring",
                "Practice gratitude meditation",
                "Try a fun physical activity" >> ]

NegativeAnxious == [
    message |-> "I understand you're feeling anxious. Remember, this feeling will pass.",
    tips |-> << "Try deep breathing exercises (4-7-8 technique)",
                "Practice a 5-minute mindfulness meditation",
                "Use a calming app like Headspace or Calm",
                "Consider talking to a trusted friend or counselor" >> ]

NegativeSad == [
    message |-> "I hear that you're going through a tough time. Your feelings are valid.",
    tips |-> << "Try to get some natural sunlight",
                "Express yourself through art, writing, or music",
                "Light exercise can help boost mood",
                "Reach out to someone who cares about you" >> ]

NegativeAngry == [
    message |-> "It sounds like you're feeling frustrated. Let's work on channeling this energy.",
    tips |-> << "Take 10 deep breaths before reacting",
                "Try physical exercise to release tension",
                "Write down your feelings in a journal",
                "Focus on what you can control in the situation" >> ]

NegativeGeneric == [
    message |-> "I sense you might be going through something difficult. Remember, it's okay to not be okay.",
    tips |-> << "Take a warm bath or shower",
                "Read a comforting book or watch a feel-good movie",
                "Make yourself a warm drink",
                "Consider talking to a mental health professional" >> ]

NeutralMixed == [
    message |-> "Your feelings seem mixed right now, which is completely normal.",
    tips |-> << "Try journaling to explore your thoughts",
                "Take a mindful walk to clear your head",
                "Listen to music that resonates with your mood",
                "Try a brief meditation or breathing exercise" >> ]

\* a threshold test that also counts a confidence of exactly 0.9 as high
HighConfidenceInclusive(confidence) == confidence >= Threshold

\* app.py:107  confidence > 0.9
HighConfidence(confidence) == confidence > Threshold

\* a POSITIVE branch that returns only the first three tips
PositiveBranchShort(confidence) ==
    IF HighConfidence(confidence)
    THEN [PositiveHigh EXCEPT !.tips = SubSeq(@, 1, 3)]
    ELSE PositiveModerate

\* app.py:106-122
PositiveBranch(confidence) ==
    IF HighConfidence(confidence) THEN PositiveHigh ELSE PositiveModerate

\* a NEGATIVE branch that tries the sadness words before the anxiety words
NegativeBranchSadFirst(text_lower) ==
    IF AnyWordIn(SadWords, text_lower) THEN NegativeSad
    ELSE IF AnyWordIn(AnxietyWords, text_lower) THEN NegativeAnxious
    ELSE IF AnyWordIn(AngerWords, text_lower) THEN NegativeAngry
    ELSE NegativeGeneric

\* app.py:124-157
NegativeBranch(text_lower) ==
    IF AnyWordIn(AnxietyWords, text_lower) THEN NegativeAnxious
    ELSE IF AnyWordIn(SadWords, text_lower) THEN NegativeSad
    ELSE IF AnyWordIn(AngerWords, text_lower) THEN NegativeAngry
    ELSE NegativeGeneric

\* a selector that compares the label without regard to case
get_personalized_recommendation_anycase(sentiment, confidence, text) ==
    LET text_lower == lower(text) IN
    IF sentiment \in {"POSITIVE", "positive", "Positive"}
    THEN PositiveBranch(confidence)
    ELSE IF sentiment \in {"NEGATIVE", "negative", "Negative"}
    THEN NegativeBranch(text_lower)
    ELSE NeutralMixed

\* app.py:100-171
get_personalized_recommendation(sentiment, confidence, text) ==
    LET text_lower == lower(text) IN
    IF sentiment = "POSITIVE" THEN PositiveBranch(confidence)
    ELSE IF sentiment = "NEGATIVE" THEN NegativeBranch(text_lower)
    ELSE NeutralMixed

-----------------------------------------------------------------------------
(* Request bodies: what request.get_json(force=True) is given *)

JNull == [type |-> "null"]
JNumber(n) == [type |-> "number", n |-> n]
JString(chars) == [type |-> "string", chars |-> chars]
JArray(items) == [type |-> "array", items |-> items]
JObject(fields) == [type |-> "object", fields |-> fields]

\* Python truthiness of a parsed JSON value, as used by `not data`
Truthy(data) ==
    CASE data.type = "null" -> FALSE
      [] data.type = "number" -> data.n # 0
      [] data.type = "string" -> data.chars # <<>>
      [] data.type = "array" -> data.items # <<>>
      [] data.type = "object" -> DOMAIN data.fields # {}

Pad(n) == [i \in 1..n |-> "z"]

Post(json) == [method |-> "POST", parses |-> TRUE, json |-> json]

TextBody(chars) == Post(JObject([text |-> JString(chars)]))

\* the requests a client sends to /predict
Requests == <<
    [method |-> "OPTIONS"],
    [method |-> "POST", parses |-> FALSE],
    Post(JNull),
    Post(JObject(<<>>)),
    Post(JArray(<<JNumber(1)>>)),
    Post(JObject([other |-> JNumber(1)])),
    Post(JObject([text |-> JNumber(5)])),
    TextBody(<<>>),
    TextBody(<<" ", "\t", "\n">>),
    TextBody(<<" ", "I", " ", "f", "e", "e", "l", " ", "A", "n", "x", "i",
               "o", "u", "s", " ", "a", "n", "d", " ", "s", "a", "d", " ">>),
    TextBody(<<"s", "o", " ", "M", "A", "D">>),
    TextBody(<<" ", "A", "n", "x", "i", "o", "u", "s">>
             \o Pad(MaxTextLen - 7) \o <<"\n">>),
    TextBody(Pad(MaxTextLen + 1)) >>

RequestIds == 1..Len(Requests)

-----------------------------------------------------------------------------
(* The classifier: an opaque dependency.  Each call either raises or      *)
(* returns a value; a well-formed value is a one-element list holding a   *)
(* label and a score.                                                     *)

Scored(label, score) ==
    [kind |-> "list", label |-> label, score |-> score, numeric |-> TRUE]

Answers == <<
    [kind |-> "raise"],
    [kind |-> "empty"],
    [kind |-> "list", label |-> "POSITIVE", score |-> 0, numeric |-> FALSE],
    Scored("POSITIVE", 99),
    Scored("NEGATIVE", 97),
    Scored("NEUTRAL", 60) >>

AnswerIds == 1..Len(Answers)

NoResult == [kind |-> "none"]

NoRecommendation == [message |-> "", tips |-> <<>>]

-----------------------------------------------------------------------------
(* Responses *)

NoResponse == [code |-> 0, status |-> "none"]

OptionsResponse == [code |-> 200, status |-> "OK"]

ErrorResponse(code, error) ==
    [code |-> code, error |-> error, status |-> "error"]

NoJsonResponse == ErrorResponse(400, <<"No JSON data provided">>)

NoTextResponse == ErrorResponse(400, <<"No text provided or text is empty">>)

TooLongResponse ==
    ErrorResponse(400,
        <<"Text too long. Please keep it under 1000 characters.">>)

UnavailableResponse ==
    ErrorResponse(500, <<"Sentiment analysis model not available">>)

\* an exception handler that answers 400 instead of 500
InternalErrorResponseAs400(exc) ==
    ErrorResponse(400, <<"Internal server error: ", exc>>)

\* app.py:93-98; the error is the f-string's two parts
InternalErrorResponse(exc) ==
    ErrorResponse(500, <<"Internal server error: ", exc>>)

SuccessResponse(sentiment, score, recs) ==
    [code |-> 200,
     sentiment |-> sentiment,
     recommendation |-> recs.message,
     confidence_score |-> score,
     additional_tips |-> recs.tips,
     status |-> "success"]

-----------------------------------------------------------------------------
(* predict(), app.py:34-98 *)

\* data.get('text', '')
GetText(data) ==
    IF "text" \in DOMAIN data.fields THEN data.fields.text ELSE JString(<<>>)

\* the local `text` of predict() for request r: line 51
TextOf(r) == strip(GetText(r.json).chars)

\* app.py:59  len(text) > 1000
TooLong(text) == Len(text) > MaxTextLen

\* a model check that never finds the model missing
ModelMissingNever(analyzer) == FALSE

\* app.py:65  not sentiment_analyzer
ModelMissing(analyzer) == analyzer = "None"

Stop(response, steps) ==
    [continue |-> FALSE, resp |-> response, steps |-> steps]

Raise(exc, steps) ==
    Stop(InternalErrorResponse(exc), steps \o <<"except">>)

\* app.py:37-69: everything predict() does before it calls the classifier
Prologue(r, analyzer) ==
    IF r.method = "OPTIONS" THEN Stop(OptionsResponse, <<"options">>)
    ELSE IF ~r.parses THEN Raise("BadRequest", <<"get_json">>)
    ELSE LET data == r.json IN
    IF ~Truthy(data) THEN Stop(NoJsonResponse, <<"get_json">>)
    ELSE IF data.type # "object"
    THEN Raise("AttributeError", <<"get_json", "data_ok">>)
    ELSE IF GetText(data).type # "string"
    THEN Raise("AttributeError", <<"get_json", "data_ok">>)
    ELSE LET text == strip(GetText(data).chars) IN
    IF text = <<>>
    THEN Stop(NoTextResponse, <<"get_json", "data_ok">>)
    ELSE IF TooLong(text)
    THEN Stop(TooLongResponse, <<"get_json", "data_ok", "presence_ok">>)
    ELSE IF ModelMissing(analyzer)
    THEN Stop(UnavailableResponse,
              <<"get_json", "data_ok", "presence_ok", "length_ok">>)
    ELSE [continue |-> TRUE, resp |-> NoResponse,
          steps |-> <<"get_json", "data_ok", "presence_ok", "length_ok",
                      "model_ok">>]

\* the handler returns `response`
Finish(w, response, steps) ==
    /\ pc' = [pc EXCEPT ![w] = "done"]
    /\ resp' = [resp EXCEPT ![w] = response]
    /\ trace' = [trace EXCEPT ![w] = @ \o steps]

\* app.py:93-98
Except(w, exc, steps) ==
    Finish(w, InternalErrorResponse(exc), steps \o <<"except">>)

\* a request q for /predict is dispatched to handler thread w
BeginRequest(w, q) ==
    /\ pc[w] \in {"idle", "done"}
    /\ pc' = [pc EXCEPT ![w] = "received"]
    /\ req' = [req EXCEPT ![w] = q]
    /\ result' = [result EXCEPT ![w] = NoResult]
    /\ recommendations' = [recommendations EXCEPT ![w] = NoRecommendation]
    /\ resp' = [resp EXCEPT ![w] = NoResponse]
    /\ trace' = [trace EXCEPT ![w] = <<>>]
    /\ UNCHANGED <<sentiment_analyzer, selIn, selOut>>

\* app.py:37-69
Validate(w) ==
    /\ pc[w] = "received"
    /\ LET out == Prologue(Requests[req[w]], sentiment_analyzer) IN
       IF out.continue
       THEN /\ pc' = [pc EXCEPT ![w] = "validated"]
            /\ trace' = [trace EXCEPT ![w] = @ \o out.steps]
            /\ UNCHANGED resp
       ELSE Finish(w, out.resp, out.steps)
    /\ UNCHANGED <<sentiment_analyzer, req, result, recommendations,
                   selIn, selOut>>

\* app.py:73-75: the call of the classifier, which answers Answers[a]
Classify(w, a) ==
    /\ pc[w] = "validated"
    /\ LET answer == Answers[a] IN
       /\ result' = [result EXCEPT ![w] = answer]
       /\ CASE answer.kind = "raise" ->
                   Except(w, "RuntimeError", <<"classify">>)
            [] answer.kind = "empty" ->
                   Except(w, "IndexError", <<"classify">>)
            [] answer.kind = "list" ->
                   /\ pc' = [pc EXCEPT ![w] = "classified"]
                   /\ trace' = [trace EXCEPT ![w] =
                                    @ \o <<"classify", "classified">>]
                   /\ UNCHANGED resp
    /\ UNCHANGED <<sentiment_analyzer, req, recommendations, selIn, selOut>>

\* app.py:80
Recommend(w) ==
    /\ pc[w] = "classified"
    /\ LET sentiment == result[w].label
           score == result[w].score
       IN IF sentiment = "POSITIVE" /\ ~result[w].numeric
          THEN /\ Except(w, "TypeError", <<"select">>)
               /\ UNCHANGED recommendations
          ELSE /\ recommendations' =
                     [recommendations EXCEPT ![w] =
                         get_personalized_recommendation(
                             sentiment, score, TextOf(Requests[req[w]]))]
               /\ pc' = [pc EXCEPT ![w] = "selected"]
               /\ trace' = [trace EXCEPT ![w] = @ \o <<"select", "selected">>]
               /\ UNCHANGED resp
    /\ UNCHANGED <<sentiment_analyzer, req, result, selIn, selOut>>

\* a Respond that takes the recommendation from whichever handler thread
\* computed one last, as if `recommendations` were a module global
RespondShared(w) ==
    /\ pc[w] = "selected"
    /\ \E v \in Workers :
          /\ recommendations[v] # NoRecommendation
          /\ (v # w) \/ (\A u \in Workers \ {w} :
                             recommendations[u] = NoRecommendation)
          /\ Finish(w, SuccessResponse(result[w].label, result[w].score,
                                       recommendations[v]), <<"respond">>)
    /\ UNCHANGED <<sentiment_analyzer, req, result, recommendations,
                   selIn, selOut>>

\* a Respond that reports the score as a whole percentage of 100
RespondRounded(w) ==
    /\ pc[w] = "selected"
    /\ Finish(w, SuccessResponse(result[w].label,
                                 (result[w].score \div 10) * 10,
                                 recommendations[w]), <<"respond">>)
    /\ UNCHANGED <<sentiment_analyzer, req, result, recommendations,
                   selIn, selOut>>

\* app.py:82-91
Respond(w) ==
    /\ pc[w] = "selected"
    /\ Finish(w, SuccessResponse(result[w].label, result[w].score,
                                 recommendations[w]), <<"respond">>)
    /\ UNCHANGED <<sentiment_analyzer, req, result, recommendations,
                   selIn, selOut>>

NoSelIn == [sentiment |-> "", confidence |-> 0, text |-> 0]

\* app.py:15-20: the model either loaded or did not
Init ==
    /\ sentiment_analyzer \in {"pipeline", "None"}
    /\ pc = [w \in Workers |-> "idle"]
    /\ req = [w \in Workers |-> 0]
    /\ result = [w \in Workers |-> NoResult]
    /\ recommendations = [w \in Workers |-> NoRecommendation]
    /\ resp = [w \in Workers |-> NoResponse]
    /\ trace = [w \in Workers |-> <<>>]
    /\ selIn = NoSelIn
    /\ selOut = NoRecommendation

Next ==
    \E w \in Workers :
        \/ \E q \in RequestIds : BeginRequest(w, q)
        \/ Validate(w)
        \/ \E a \in AnswerIds : Classify(w, a)
        \/ Recommend(w)
        \/ Respond(w)

Spec == Init /\ [][Next]_vars

-----------------------------------------------------------------------------
(* Direct calls of get_personalized_recommendation *)

SelLabels ==
    {"POSITIVE", "NEGATIVE", "NEUTRAL", "positive", "Negative", "LABEL_1", ""}

SelScores == {0, 50, 89, 90, 91, 100}

\* texts, each with the keyword groups a reader finds in it
SelTexts == <<
    [chars |-> <<>>, groups |-> {}],
    [chars |-> <<" ", "I", " ", "f", "e", "e", "l", " ", "A", "n", "x", "i",
                 "o", "u", "s", " ", "a", "n", "d", " ", "s", "a", "d", " ">>,
     groups |-> {"anxiety", "sadness"}],
    [chars |-> <<"s", "a", "d", " ", "a", "n", "d", " ", "m", "a", "d">>,
     groups |-> {"sadness", "anger"}],
    [chars |-> <<"U", "P", "S", "E", "T">>, groups |-> {"sadness"}],
    [chars |-> <<"F", "r", "u", "s", "t", "r", "a", "t", "e", "d", "!">>,
     groups |-> {"anger"}],
    [chars |-> <<"f", "i", "n", "e">>, groups |-> {}],
    [chars |-> <<"s", " ", "a", " ", "d">>, groups |-> {}],
    [chars |-> <<"s", "t", "r", "e", "s", "s", "e", "d", ",", " ", "d", "o",
                 "w", "n", ",", " ", "a", "n", "g", "r", "y">>,
     groups |-> {"anxiety", "sadness", "anger"}],
    [chars |-> <<" ", " ", "W", "o", "r", "r", "i", "e", "d", " ", " ">>,
     groups |-> {"anxiety"}],
    [chars |-> <<"m", "a", "d", "n", "e", "s", "s">>, groups |-> {"anger"}],
    [chars |-> <<"I", "r", "r", "i", "t", "a", "t", "e", "d", ",", " ", "a",
                 "n", "x", "i", "e", "t", "y">>,
     groups |-> {"anxiety", "anger"}],
    [chars |-> <<"D", "e", "p", "r", "e", "s", "s", "e", "d">>,
     groups |-> {"sadness"}] >>

SelInputs ==
    [sentiment : SelLabels, confidence : SelScores, text : 1..Len(SelTexts)]

\* get_personalized_recommendation(sentiment, confidence, text) is called
SelCall ==
    /\ selOut = NoRecommendation
    /\ selOut' = get_personalized_recommendation(
                     selIn.sentiment, selIn.confidence,
                     SelTexts[selIn.text].chars)
    /\ UNCHANGED <<selIn, handlerVars>>

SelInit ==
    /\ sentiment_analyzer = "pipeline"
    /\ pc = [w \in Workers |-> "idle"]
    /\ req = [w \in Workers |-> 0]
    /\ result = [w \in Workers |-> NoResult]
    /\ recommendations = [w \in Workers |-> NoRecommendation]
    /\ resp = [w \in Workers |-> NoResponse]
    /\ trace = [w \in Workers |-> <<>>]
    /\ selIn \in SelInputs
    /\ selOut = NoRecommendation

SelNext == SelCall

SelSpec == SelInit /\ [][SelNext]_vars

-----------------------------------------------------------------------------
(* Properties of the selector, checked under SelSpec *)

Called == selOut # NoRecommendation

SelGroups == SelTexts[selIn.text].groups

SevenPairs ==
    {PositiveHigh, PositiveModerate, NegativeAnxious, NegativeSad,
     NegativeAngry, NegativeGeneric, NeutralMixed}

\* the decision table over (label, confidence above threshold, groups)
Decision(label, high, groups) ==
    CASE label = "POSITIVE" /\ high -> PositiveHigh
      [] label = "POSITIVE" /\ ~high -> PositiveModerate
      [] label = "NEGATIVE" /\ "anxiety" \in groups -> NegativeAnxious
      [] label = "NEGATIVE" /\ "anxiety" \notin groups
             /\ "sadness" \in groups -> NegativeSad
      [] label = "NEGATIVE" /\ groups = {"anger"} -> NegativeAngry
      [] label = "NEGATIVE" /\ groups = {} -> NegativeGeneric
      [] label \notin {"POSITIVE", "NEGATIVE"} -> NeutralMixed

\* C6: the selector returns, for every label, confidence and text, exactly
\* one of seven distinct (message, tips) pairs, each with four tips, and the
\* pair is a function of the label, of whether the confidence exceeds the
\* threshold and of the keyword groups occurring in the text.
C6_SelectorTotal ==
    Called =>
        /\ Cardinality(SevenPairs) = 7
        /\ \A p \in SevenPairs : Len(p.tips) = 4
        /\ selOut \in SevenPairs
        /\ selOut = Decision(selIn.sentiment, selIn.confidence > 90, SelGroups)

C6_Witness ==
    /\ Called
    /\ selIn.sentiment = "POSITIVE"
    /\ selIn.confidence = 100
    /\ selOut = PositiveHigh
    /\ Len(selOut.tips) = 4

\* C7: for label POSITIVE the high-confidence message is returned if and
\* only if the confidence is strictly greater than 0.9, the moderate message
\* otherwise (also at exactly 0.9), whatever keywords the text holds.
C7_PositiveThreshold ==
    (Called /\ selIn.sentiment = "POSITIVE") =>
        /\ (selOut = PositiveHigh) <=> (selIn.confidence > 90)
        /\ (selOut = PositiveModerate) <=> (selIn.confidence <= 90)

C7_Witness ==
    /\ Called
    /\ selIn.sentiment = "POSITIVE"
    /\ selIn.confidence = 90
    /\ SelGroups = {"anxiety", "sadness", "anger"}
    /\ selOut = PositiveModerate

\* C8: a label other than exactly POSITIVE or NEGATIVE gets the "mixed"
\* message and its four tips, whatever the confidence and the keywords.
C8_OtherLabelsMixed ==
    (Called /\ selIn.sentiment \notin {"POSITIVE", "NEGATIVE"}) =>
        selOut = NeutralMixed

C8_Witness ==
    /\ Called
    /\ selIn.sentiment = "positive"
    /\ selIn.confidence = 100
    /\ SelGroups = {"anxiety", "sadness"}
    /\ selOut = NeutralMixed

\* C9: for label NEGATIVE the anxiety words win over the sadness words,
\* which win over the anger words; the words are matched as
\* case-insensitive substrings; a text with none of them gets the generic
\* message; the confidence does not matter.
C9_NegativePriority ==
    (Called /\ selIn.sentiment = "NEGATIVE") =>
        selOut = IF "anxiety" \in SelGroups THEN NegativeAnxious
                 ELSE IF "sadness" \in SelGroups THEN NegativeSad
                 ELSE IF "anger" \in SelGroups THEN NegativeAngry
                 ELSE NegativeGeneric

C9_Witness ==
    /\ Called
    /\ selIn.sentiment = "NEGATIVE"
    /\ SelGroups = {"anxiety", "sadness", "anger"}
    /\ selOut = NegativeAnxious

-----------------------------------------------------------------------------
(* Properties of predict(), checked under Spec *)

Done(w) == pc[w] = "done"

\* step occurs in the trace of w
Has(step, w) == \E i \in 1..Len(trace[w]) : trace[w][i] = step

\* every occurrence of step b in the trace of w comes after a step a
After(a, b, w) ==
    \A i \in 1..Len(trace[w]) :
        trace[w][i] = b => \E j \in 1..(i - 1) : trace[w][j] = a

AtMostOnce(step, w) ==
    Cardinality({i \in 1..Len(trace[w]) : trace[w][i] = step}) <= 1

IsPost(q) == q \in RequestIds /\ Requests[q].method = "POST"

HasJsonObject(q) ==
    IsPost(q) /\ Requests[q].parses /\ Requests[q].json.type = "object"

NoTextField(q) ==
    HasJsonObject(q) /\ "text" \notin DOMAIN Requests[q].json.fields

HasTextString(q) ==
    /\ HasJsonObject(q)
    /\ "text" \in DOMAIN Requests[q].json.fields
    /\ Requests[q].json.fields.text.type = "string"

RawText(q) == Requests[q].json.fields.text.chars

\* number of characters of the text of q between its first and its last
\* non-whitespace character; 0 where q has no such character or no text
InnerLen ==
    [q \in RequestIds |->
        IF ~HasTextString(q) THEN 0
        ELSE LET t == RawText(q)
                 lead == Cardinality({i \in 1..Len(t) :
                             \A j \in 1..i : t[j] \in Whitespace})
                 trail == Cardinality({i \in 1..Len(t) :
                             \A j \in i..Len(t) : t[j] \in Whitespace})
             IN IF lead = Len(t) THEN 0 ELSE Len(t) - lead - trail]

\* q carries a text that is present and under 1000 characters
GoodText(q) == HasTextString(q) /\ InnerLen[q] >= 1 /\ InnerLen[q] < 1000

IsInternalError(r) ==
    /\ r.code = 500
    /\ r.status = "error"
    /\ r.error[1] = "Internal server error: "

\* C1 as stated: with the model not loaded, every POST /predict, whatever
\* its body, gets the "model not available" response.
C1_AnyBodyUnavailable ==
    sentiment_analyzer = "None" =>
        \A w \in Workers :
            (Done(w) /\ IsPost(req[w])) => resp[w] = UnavailableResponse

\* C1 amended: with the model not loaded, every POST /predict whose text is
\* present and under 1000 characters gets the "model not available"
\* response (HTTP 500, status "error"), the classifier is never invoked for
\* any request, and the model stays unavailable.
C1_ValidTextUnavailable ==
    /\ [](sentiment_analyzer = "None" =>
            \A w \in Workers :
                /\ ~Has("classify", w)
                /\ pc[w] \in {"idle", "received", "done"}
                /\ (Done(w) /\ GoodText(req[w])) =>
                       resp[w] = UnavailableResponse)
    /\ [][sentiment_analyzer = "None" => sentiment_analyzer' = "None"]_vars

C1_Witness ==
    /\ sentiment_analyzer = "None"
    /\ \E w \in Workers :
          /\ Done(w)
          /\ GoodText(req[w])
          /\ resp[w] = UnavailableResponse
          /\ resp[w].code = 500

\* C2: within one request the steps happen in the order validate, classify,
\* select, respond: the classifier is invoked at most once and only after
\* the presence and the length check passed, the selector only after the
\* classifier returned a label and a score, and a "success" response is
\* sent only after both ran and carries the classifier's label and score.
C2_StepOrder ==
    \A w \in Workers :
        /\ AtMostOnce("classify", w)
        /\ After("presence_ok", "classify", w)
        /\ After("length_ok", "classify", w)
        /\ After("presence_ok", "length_ok", w)
        /\ After("classified", "select", w)
        /\ After("selected", "respond", w)
        /\ Has("classify", w) =>
              (HasTextString(req[w]) /\ InnerLen[req[w]] >= 1)
        /\ resp[w].status = "success" =>
              /\ Has("classified", w)
              /\ Has("selected", w)
              /\ Has("respond", w)
              /\ result[w].kind = "list"
              /\ resp[w].sentiment = result[w].label
              /\ resp[w].confidence_score = result[w].score

C2_Witness ==
    \E w \in Workers :
        /\ Done(w)
        /\ resp[w].status = "success"
        /\ resp[w].sentiment = "NEGATIVE"
        /\ resp[w].confidence_score = 97
        /\ trace[w] = <<"get_json", "data_ok", "presence_ok", "length_ok",
                        "model_ok", "classify", "classified", "select",
                        "selected", "respond">>

\* the part of the state that belongs to the request handled by w
Locals(w) == <<pc[w], req[w], result[w], recommendations[w], resp[w], trace[w]>>

\* C3: the service keeps no state between requests: two requests with the
\* same body and the same classifier answer get the same response whatever
\* was handled before or is handled at the same time, a step of one handler
\* changes nothing of another request, and the model availability never
\* changes.
C3_NoSharedState ==
    /\ [](\A w1, w2 \in Workers :
            (Done(w1) /\ Done(w2) /\ req[w1] = req[w2]
                /\ result[w1] = result[w2]) =>
                (resp[w1] = resp[w2] /\ trace[w1] = trace[w2]))
    /\ [][/\ sentiment_analyzer' = sentiment_analyzer
          /\ \A w1 \in Workers :
                Locals(w1)' # Locals(w1) =>
                    \A w2 \in Workers \ {w1} : Locals(w2)' = Locals(w2)]_vars

C3_Witness ==
    \E w1, w2 \in Workers :
        /\ w1 # w2
        /\ Done(w1) /\ Done(w2)
        /\ req[w1] = req[w2]
        /\ result[w1] = result[w2]
        /\ resp[w1].status = "success"
        /\ resp[w1] = resp[w2]

\* C4: a POST /predict whose JSON object has no 'text' field, or whose
\* 'text' is empty or only whitespace, gets HTTP 400 with status "error"
\* and is not classified.
C4_PresenceValidation ==
    \A w \in Workers :
        LET q == req[w] IN
        (/\ pc[w] # "idle"
         /\ \/ NoTextField(q)
            \/ HasTextString(q) /\
                  \A i \in 1..Len(RawText(q)) : RawText(q)[i] \in Whitespace)
        => /\ ~Has("classify", w)
           /\ pc[w] \in {"received", "done"}
           /\ Done(w) => (resp[w].code = 400 /\ resp[w].status = "error")

C4_Witness ==
    \E w \in Workers :
        /\ Done(w)
        /\ HasTextString(req[w])
        /\ Len(RawText(req[w])) = 3
        /\ \A i \in 1..3 : RawText(req[w])[i] \in Whitespace
        /\ resp[w] = NoTextResponse

\* C5 as stated: a text reaches the classifier only if, stripped, it is
\* under 1000 characters long; every text that is not gets HTTP 400
\* "Text too long" and is never classified.
C5_UnderLimitOnly ==
    \A w \in Workers :
        /\ Has("classify", w) => InnerLen[req[w]] < 1000
        /\ (Done(w) /\ HasTextString(req[w]) /\ InnerLen[req[w]] >= 1000) =>
              resp[w] = TooLongResponse

\* the request handled by w raised: its body did not parse, was a JSON value
\* without .get, held a 'text' that is no string, or the classifier raised
\* or returned a value of unexpected shape
Raised(w) ==
    LET r == Requests[req[w]] IN
    \/ IsPost(req[w]) /\ ~r.parses
    \/ IsPost(req[w]) /\ r.parses /\ r.json.type = "array"
          /\ r.json.items # <<>>
    \/ HasJsonObject(req[w]) /\ ~NoTextField(req[w]) /\ ~HasTextString(req[w])
    \/ result[w].kind \in {"raise", "empty"}
    \/ result[w].kind = "list" /\ result[w].label = "POSITIVE"
          /\ ~result[w].numeric /\ pc[w] # "classified"

\* C10: an exception raised while handling a POST /predict is caught and
\* turned into HTTP 500 with status "error" and an "Internal server error:"
\* message; such a request never gets a success response and ends with a
\* response, and the handler thread accepts the next request.
C10_ExceptionsCaught ==
    \A w \in Workers :
        /\ (Done(w) /\ Raised(w)) => IsInternalError(resp[w])
        /\ Has("except", w) =>
              /\ Done(w)
              /\ IsInternalError(resp[w])
              /\ ENABLED BeginRequest(w, req[w])
        /\ (pc[w] \notin {"idle", "done"} /\ Raised(w)) => pc[w] = "received"
        /\ Done(w) => resp[w] # NoResponse

C10_Witness ==
    \E w1, w2 \in Workers :
        /\ Done(w1)
        /\ result[w1].kind = "raise"
        /\ IsInternalError(resp[w1])
        /\ Done(w2)
        /\ IsPost(req[w2]) /\ ~Requests[req[w2]].parses
        /\ IsInternalError(resp[w2])

=============================================================================
